---- MODULE Spec2Model ----
(***************************************************************************)
(* Model of src/nownn.py: the JSON record store, the validators, the       *)
(* Employees / Attendance / Salary tab handlers and the month aggregation. *)
(*                                                                         *)
(* Python strings are sequences of one-character strings, so that strip(), *)
(* isdigit(), the regular expressions, float() and strftime/strptime are   *)
(* computed character by character.  Python floats are exact rationals     *)
(* [num, den] in lowest terms.  A Python dict is a function from key names *)
(* to values; a file is absent, garbage, or a JSON document.               *)
(***************************************************************************)
EXTENDS Integers, Sequences, FiniteSets, TLC

VARIABLES
    records,      \* EmployeesTab.records: the in-memory roster (list of dicts)
    empFile,      \* content of data/employees.json
    attFiles,     \* data/attendance/: day string -> content of <day>.json (existing files only)
    rows,         \* AttendanceTab.rows: the in-memory rows of the attendance table
    sel_emp_id,   \* AttendanceTab.sel_emp_id (read-only entry, set by selecting a row)
    salRows,      \* SalaryTab.rows: the last computed salary rows
    month_var,    \* SalaryTab.month_var
    msg,          \* the message box shown by the last handler (NoMsg when it showed none)
    exc,          \* the exception that escaped the last handler ("none" when it returned)
    nOps          \* number of handler invocations so far

vars == <<records, empFile, attFiles, rows, sel_emp_id, salRows, month_var, msg, exc, nOps>>

-----------------------------------------------------------------------------
(* Bounds of the model                                                     *)

\* Number of handler invocations (button presses, row selections) of a run.
MaxOps == 6

-----------------------------------------------------------------------------
(* Strings                                                                 *)

DigitChars == <<"0", "1", "2", "3", "4", "5", "6", "7", "8", "9">>

Digits == {DigitChars[i] : i \in 1..10}

Whitespace == {" "}

DigitVal(c) == (CHOOSE i \in 1..10 : DigitChars[i] = c) - 1

Range(s) == {s[i] : i \in 1..Len(s)}

RECURSIVE lstrip(_)
lstrip(s) == IF Len(s) > 0 /\ Head(s) \in Whitespace THEN lstrip(Tail(s)) ELSE s

RECURSIVE rstrip(_)
rstrip(s) ==
    IF Len(s) > 0 /\ s[Len(s)] \in Whitespace THEN rstrip(SubSeq(s, 1, Len(s) - 1)) ELSE s

\* str.strip()
strip(s) == rstrip(lstrip(s))

\* str.isdigit()
isdigit(s) == Len(s) > 0 /\ \A i \in 1..Len(s) : s[i] \in Digits

UpperOf(c) ==
    LET lower == <<"a", "b", "c", "d", "e", "f", "g", "h", "i", "j", "k", "l", "m",
                   "n", "o", "p", "q", "r", "s", "t", "u", "v", "w", "x", "y", "z">>
        caps  == <<"A", "B", "C", "D", "E", "F", "G", "H", "I", "J", "K", "L", "M",
                   "N", "O", "P", "Q", "R", "S", "T", "U", "V", "W", "X", "Y", "Z">>
        at    == {i \in 1..26 : lower[i] = c}
    IN  IF at = {} THEN c ELSE caps[CHOOSE i \in at : TRUE]

\* str.upper()
upper(s) == [i \in 1..Len(s) |-> UpperOf(s[i])]

\* int() of a string of digits
RECURSIVE ParseInt(_)
ParseInt(s) ==
    IF Len(s) = 0 THEN 0
    ELSE 10 * ParseInt(SubSeq(s, 1, Len(s) - 1)) + DigitVal(s[Len(s)])

\* f"{n:02d}" and f"{n:04d}" / strftime's zero-padded fields
Format2(n) == <<DigitChars[((n \div 10) % 10) + 1], DigitChars[(n % 10) + 1]>>

Format4(n) == Format2(n \div 100) \o Format2(n % 100)

-----------------------------------------------------------------------------
(* Floats as exact rationals                                               *)

RECURSIVE GCD(_, _)
GCD(a, b) == IF b = 0 THEN a ELSE GCD(b, a % b)

Abs(n) == IF n < 0 THEN -n ELSE n

Rat(n, d) ==
    LET g == GCD(Abs(n), d) IN
    IF n = 0 THEN [num |-> 0, den |-> 1] ELSE [num |-> n \div g, den |-> d \div g]

Zero == Rat(0, 1)

RAdd(a, b) == Rat(a.num * b.den + b.num * a.den, a.den * b.den)

RMul(a, b) == Rat(a.num * b.num, a.den * b.den)

RDivInt(a, k) == Rat(a.num, a.den * k)

RLess(a, b) == a.num * b.den < b.num * a.den

RMax(a, b) == IF RLess(a, b) THEN b ELSE a

IsNum(v) == DOMAIN v = {"num", "den"}

RECURSIVE Pow10(_)
Pow10(k) == IF k = 0 THEN 1 ELSE 10 * Pow10(k - 1)

\* The first position of c in s, 0 when it is not there
IndexOf(s, c) ==
    IF c \in Range(s)
    THEN CHOOSE i \in 1..Len(s) : s[i] = c /\ \A j \in 1..(i - 1) : s[j] # c
    ELSE 0

\* float() of an unsigned decimal literal: digits with at most one dot and at
\* least one digit
ParseUnsigned(s) ==
    LET dot  == IndexOf(s, ".")
        ip   == IF dot = 0 THEN s ELSE SubSeq(s, 1, dot - 1)
        fp   == IF dot = 0 THEN <<>> ELSE SubSeq(s, dot + 1, Len(s))
        good == /\ Len(ip) + Len(fp) > 0
                /\ \A i \in 1..Len(ip) : ip[i] \in Digits
                /\ \A i \in 1..Len(fp) : fp[i] \in Digits
    IN  IF good
        THEN [ok |-> TRUE, val |-> Rat(ParseInt(ip) * Pow10(Len(fp)) + ParseInt(fp), Pow10(Len(fp)))]
        ELSE [ok |-> FALSE, val |-> Zero]

\* float(s) for a string: surrounding whitespace and one sign are accepted;
\* [ok |-> FALSE] stands for the ValueError
ParseFloat(s) ==
    LET t == strip(s)
        neg == Len(t) > 0 /\ Head(t) = "-"
        body == IF Len(t) > 0 /\ Head(t) \in {"-", "+"} THEN Tail(t) ELSE t
        u == ParseUnsigned(body)
    IN  IF u.ok /\ neg THEN [ok |-> TRUE, val |-> Rat(-u.val.num, u.val.den)] ELSE u

\* float(v) for a value read from a dict: a number is itself, a string is parsed
ToFloat(v) == IF IsNum(v) THEN [ok |-> TRUE, val |-> v] ELSE ParseFloat(v.str)

-----------------------------------------------------------------------------
(* Calendar                                                                *)

\* The leap years of the Julian calendar: every fourth year
IsLeap_every4(y) == y % 4 = 0

IsLeap(y) == (y % 4 = 0 /\ y % 100 # 0) \/ y % 400 = 0

\* calendar.monthrange(year, month)[1]
DaysInMonth(y, m) ==
    IF m = 2 THEN (IF IsLeap(y) THEN 29 ELSE 28)
    ELSE IF m \in {4, 6, 9, 11} THEN 30 ELSE 31

RECURSIVE DaysBeforeMonth(_, _)
DaysBeforeMonth(y, m) == IF m = 1 THEN 0 ELSE DaysBeforeMonth(y, m - 1) + DaysInMonth(y, m - 1)

\* date.toordinal()
Ordinal(y, m, d) ==
    365 * (y - 1) + ((y - 1) \div 4) - ((y - 1) \div 100) + ((y - 1) \div 400)
    + DaysBeforeMonth(y, m) + d

\* date.weekday(): Monday is 0
Weekday(y, m, d) == (Ordinal(y, m, d) + 6) % 7

\* date.strftime("%Y-%m-%d")
FormatDate(y, m, d) == Format4(y) \o <<"-">> \o Format2(m) \o <<"-">> \o Format2(d)

\* DATE_RE
DateShape(s) ==
    /\ Len(s) = 10
    /\ \A i \in {1, 2, 3, 4, 6, 7, 9, 10} : s[i] \in Digits
    /\ s[5] = "-" /\ s[8] = "-"

DateYear(s) == ParseInt(SubSeq(s, 1, 4))

DateMonth(s) == ParseInt(SubSeq(s, 6, 7))

DateDay(s) == ParseInt(SubSeq(s, 9, 10))

valid_date(s) ==
    /\ DateShape(s)
    /\ DateYear(s) >= 1
    /\ DateMonth(s) \in 1..12
    /\ DateDay(s) \in 1..DaysInMonth(DateYear(s), DateMonth(s))

\* month_days_iter(year, month), as the list it yields
month_days_iter(year, month) ==
    [i \in 1..DaysInMonth(year, month) |-> FormatDate(year, month, i)]

\* business_days_in_month(year, month): the loop parses each yielded string back
business_days_in_month(year, month) ==
    LET days == month_days_iter(year, month) IN
    Cardinality({i \in 1..Len(days) :
        Weekday(DateYear(days[i]), DateMonth(days[i]), DateDay(days[i])) < 5})

\* EMAIL_RE: ^[^@\s]+@[^@\s]+\.[^@\s]+$
EmailShape(s) ==
    LET at == IndexOf(s, "@") IN
    /\ at > 1
    /\ \A i \in 1..Len(s) : s[i] \notin Whitespace /\ (s[i] = "@" => i = at)
    /\ \E j \in (at + 2)..(Len(s) - 1) : s[j] = "."

-----------------------------------------------------------------------------
(* Record store: JSON files                                                *)

NoFile == [kind |-> "absent"]

Garbage == [kind |-> "garbage"]

\* The order in which json.dump writes the keys of a dict
KeyOrder ==
    <<"emp_id", "name", "department", "role", "base_salary", "join_date", "phone",
      "email", "status", "ip", "overtime">>

\* dict.get(key, default)
Get(d, k, dflt) == IF k \in DOMAIN d THEN d[k] ELSE dflt

\* The writing of a dict that stops at the first value that is a number
ObjPairs_cut(d) ==
    LET Has(k) == k \in DOMAIN d
        ks == SelectSeq(KeyOrder, Has)
        nums == {i \in 1..Len(ks) : IsNum(d[ks[i]])}
        n == IF nums = {} THEN Len(ks) ELSE (CHOOSE i \in nums : \A j \in nums : i <= j) - 1
    IN  [i \in 1..n |-> <<ks[i], d[ks[i]]>>]

\* One dict as a JSON object: its key/value pairs in writing order
ObjPairs(d) ==
    LET Has(k) == k \in DOMAIN d
        ks == SelectSeq(KeyOrder, Has)
    IN  [i \in 1..Len(ks) |-> <<ks[i], d[ks[i]]>>]

\* A JSON object read back as a dict: the last pair of a key wins
FromPairs(ps) ==
    [k \in {ps[j][1] : j \in 1..Len(ps)} |->
        ps[CHOOSE j \in 1..Len(ps) :
              ps[j][1] = k /\ \A l \in (j + 1)..Len(ps) : ps[l][1] # k][2]]

\* json.dump(list of dicts, f)
json_dump(list) == [kind |-> "json", doc |-> [i \in 1..Len(list) |-> ObjPairs(list[i])]]

\* json.load(f): [ok |-> FALSE] stands for the JSONDecodeError
json_load(file) ==
    IF file.kind = "json"
    THEN [ok |-> TRUE, val |-> [i \in 1..Len(file.doc) |-> FromPairs(file.doc[i])]]
    ELSE [ok |-> FALSE, val |-> <<>>]

\* ensure_dirs() writing the empty employees file without looking for it first
ensure_dirs_reset(file) == json_dump(<<>>)

\* ensure_dirs(): the employees file is created empty when it does not exist
ensure_dirs(file) == IF file.kind = "absent" THEN json_dump(<<>>) ELSE file

\* load_employees(): any exception of the read gives []
load_employees ==
    LET r == json_load(ensure_dirs(empFile)) IN IF r.ok THEN r.val ELSE <<>>

\* save_employees(records): the new content of the employees file
save_employees(list) == json_dump(list)

\* load_attendance(day_str): [] when the file does not exist; the JSON error
\* of an existing file is not caught
load_attendance(day) ==
    IF day \in DOMAIN attFiles THEN json_load(attFiles[day]) ELSE [ok |-> TRUE, val |-> <<>>]

\* save_attendance adding the rows to the rows the file holds already
save_attendance_append(day, list) ==
    [d \in DOMAIN attFiles \cup {day} |->
        IF d # day THEN attFiles[d]
        ELSE IF day \in DOMAIN attFiles /\ attFiles[day].kind = "json"
        THEN [kind |-> "json", doc |-> attFiles[day].doc \o json_dump(list).doc]
        ELSE json_dump(list)]

\* save_attendance(day_str, rows): the new content of the attendance directory
save_attendance(day, list) ==
    [d \in DOMAIN attFiles \cup {day} |-> IF d = day THEN json_dump(list) ELSE attFiles[d]]

\* get_host_ip(): the resolved address, or the loopback address when resolving fails
LOOPBACK == <<"1", "2", "7", ".", "0", ".", "0", ".", "1">>

get_host_ip(res) == IF res.ok THEN res.addr ELSE LOOPBACK

-----------------------------------------------------------------------------
(* Message boxes                                                           *)

NoText == <<>>

NoMsg == [title |-> "", text |-> "", arg |-> NoText]

Msg(title, text) == [title |-> title, text |-> text, arg |-> NoText]

MsgDay(title, text, day) == [title |-> title, text |-> text, arg |-> day]

DEFAULT_DATE_STR == <<"2", "0", "2", "5", "-", "0", "8", "-", "1", "9">>

\* Two days typed into the date field: a Friday and the Saturday after it
DAY_1 == <<"2", "0", "2", "5", "-", "0", "8", "-", "0", "1">>

DAY_2 == <<"2", "0", "2", "5", "-", "0", "8", "-", "0", "2">>

-----------------------------------------------------------------------------
(* Employees tab                                                           *)

\* bs = float(...) with a negative value raising as well, without the check of the sign
BadSalary_unsigned(text) == ~ParseFloat(text).ok

\* try: bs = float(rec["base_salary"]); if bs < 0: raise ValueError / except: ...
BadSalary(text) == ~ParseFloat(text).ok \/ RLess(ParseFloat(text).val, Zero)

\* EmployeesTab._read_form: the record, or the message of the ValueError
_read_form(form) ==
    LET rec == [emp_id      |-> strip(form.emp_id),
                name        |-> strip(form.name),
                department  |-> strip(form.department),
                role        |-> strip(form.role),
                base_salary |-> strip(form.base_salary),
                join_date   |-> strip(form.join_date),
                phone       |-> strip(form.phone),
                email       |-> strip(form.email)]
        Bad(text) == [ok |-> FALSE, err |-> text, rec |-> rec]
    IN  IF Len(rec.emp_id) = 0 THEN Bad("Employee ID is required.")
        ELSE IF ~isdigit(rec.emp_id) THEN Bad("Employee ID must be numeric.")
        ELSE IF Len(rec.name) = 0 THEN Bad("Name is required.")
        ELSE IF BadSalary(rec.base_salary) THEN Bad("Base Salary must be a positive number.")
        ELSE IF Len(rec.join_date) > 0 /\ ~valid_date(rec.join_date)
            THEN Bad("Join Date must be YYYY-MM-DD.")
        ELSE IF Len(rec.email) > 0 /\ ~EmailShape(rec.email) THEN Bad("Email format is invalid.")
        ELSE IF Len(rec.phone) > 0 /\ ~isdigit(rec.phone)
            THEN Bad("Phone must contain digits only.")
        ELSE [ok |-> TRUE, err |-> "", rec |-> rec]

\* rec["base_salary"] = float(rec["base_salary"])
Normalized(rec) == [rec EXCEPT !.base_salary = ParseFloat(rec.base_salary).val]

\* The duplicate test looking at the first record only
HasId_first(list, id) == Len(list) > 0 /\ list[1].emp_id = id

\* The duplicate test finding nothing
HasId_never(list, id) == FALSE

\* any(r["emp_id"] == rec["emp_id"] for r in self.records)
HasId(list, id) == \E i \in 1..Len(list) : list[i].emp_id = id

\* The first index holding the id (the loop of on_update breaks there); 0 for None
FindIdx(list, id) ==
    IF \E i \in 1..Len(list) : list[i].emp_id = id
    THEN CHOOSE i \in 1..Len(list) : list[i].emp_id = id /\ \A j \in 1..(i - 1) : list[j].emp_id # id
    ELSE 0

AttUnchanged == UNCHANGED <<attFiles, rows, sel_emp_id>>

SalUnchanged == UNCHANGED <<salRows, month_var>>

\* EmployeesTab.on_save_new
on_save_new(form) ==
    LET f == _read_form(form) IN
    /\ IF ~f.ok
       THEN /\ msg' = Msg("Validation", f.err)
            /\ UNCHANGED <<records, empFile>>
       ELSE IF HasId(records, f.rec.emp_id)
       THEN /\ msg' = Msg("Duplicate", "Employee ID already exists.")
            /\ UNCHANGED <<records, empFile>>
       ELSE /\ records' = Append(records, Normalized(f.rec))
            /\ empFile' = save_employees(records')
            /\ msg' = Msg("Saved", "Employee saved.")
    /\ exc' = "none"
    /\ AttUnchanged /\ SalUnchanged

\* EmployeesTab.on_update
on_update(form) ==
    LET f == _read_form(form)
        idx == FindIdx(records, f.rec.emp_id)
    IN
    /\ IF ~f.ok
       THEN /\ msg' = Msg("Validation", f.err)
            /\ UNCHANGED <<records, empFile>>
       ELSE IF idx = 0
       THEN /\ msg' = Msg("Not Found", "Employee ID not found. Use Save New to add.")
            /\ UNCHANGED <<records, empFile>>
       ELSE /\ records' = [records EXCEPT ![idx] = Normalized(f.rec)]
            /\ empFile' = save_employees(records')
            /\ msg' = Msg("Updated", "Employee updated.")
    /\ exc' = "none"
    /\ AttUnchanged /\ SalUnchanged

\* EmployeesTab.on_delete_selected: sel is the set of selected table rows (the
\* table shows self.records), confirm the answer to the confirmation dialog
on_delete_selected(sel, confirm) ==
    LET ids == {records[i].emp_id : i \in sel}
        Keep(r) == r.emp_id \notin ids
    IN
    /\ sel \subseteq 1..Len(records)
    /\ IF sel = {}
       THEN /\ msg' = Msg("Delete", "Select at least one row in the table.")
            /\ UNCHANGED <<records, empFile>>
       ELSE IF ~confirm
       THEN /\ msg' = NoMsg
            /\ UNCHANGED <<records, empFile>>
       ELSE /\ records' = SelectSeq(records, Keep)
            /\ empFile' = save_employees(records')
            /\ msg' = NoMsg
    /\ exc' = "none"
    /\ AttUnchanged /\ SalUnchanged

-----------------------------------------------------------------------------
(* Attendance tab                                                          *)

STATUS_A == <<"A">>

STATUS_P == <<"P">>

\* existing = {r["emp_id"]: r for r in load_attendance(day)}: the last record of an id wins
ExistingOf(list, id) ==
    LET hits == {i \in 1..Len(list) : list[i].emp_id = id} IN
    IF hits = {} THEN [none |-> TRUE]
    ELSE list[CHOOSE i \in hits : \A j \in hits : j <= i]

\* The row of roster entry e built without looking at the saved records
LoadedRow_fresh(e, saved, host) ==
    [Emp_Id         |-> Get(e, "emp_id", NoText),
     Name           |-> Get(e, "name", NoText),
     Status         |-> STATUS_A,
     IP             |-> host,
     Overtime_Hours |-> Zero]

\* The row on_load builds for roster entry e
LoadedRow(e, saved, host) ==
    LET emp_id == Get(e, "emp_id", NoText)
        ex == ExistingOf(saved, emp_id)
    IN  [Emp_Id         |-> emp_id,
         Name           |-> Get(e, "name", NoText),
         Status         |-> Get(ex, "status", STATUS_A),
         IP             |-> Get(ex, "ip", host),
         Overtime_Hours |-> Get(ex, "overtime", Zero)]

\* AttendanceTab.on_load: dateText is the content of the date field, res the
\* outcome of resolving the host address
on_load(dateText, res) ==
    LET day == strip(dateText)
        saved == load_attendance(day)
        emps == load_employees
    IN
    /\ IF ~valid_date(day)
       THEN /\ msg' = Msg("Date", "Please enter a valid date in YYYY-MM-DD.")
            /\ exc' = "none"
            /\ UNCHANGED <<rows, empFile>>
       ELSE IF ~saved.ok
       THEN /\ exc' = "JSONDecodeError"
            /\ msg' = NoMsg
            /\ empFile' = ensure_dirs(empFile)
            /\ UNCHANGED rows
       ELSE IF \E i \in 1..Len(saved.val) : "emp_id" \notin DOMAIN saved.val[i]
       THEN /\ exc' = "KeyError"
            /\ msg' = NoMsg
            /\ empFile' = ensure_dirs(empFile)
            /\ UNCHANGED rows
       ELSE /\ rows' = [i \in 1..Len(emps) |-> LoadedRow(emps[i], saved.val, get_host_ip(res))]
            /\ empFile' = ensure_dirs(empFile)
            /\ msg' = MsgDay("Loaded", "Attendance loaded for", day)
            /\ exc' = "none"
    /\ UNCHANGED <<records, attFiles, sel_emp_id>>
    /\ SalUnchanged

\* float(r["Overtime Hours"]) if str(r["Overtime Hours"]).strip() != "" else 0.0
PersistOvertime(v) ==
    IF IsNum(v) THEN [ok |-> TRUE, val |-> v]
    ELSE IF Len(strip(v.str)) = 0 THEN [ok |-> TRUE, val |-> Zero]
    ELSE ParseFloat(v.str)

\* The persistable structure on_save_all builds from the rows
Persist(list) ==
    [i \in 1..Len(list) |->
        [emp_id   |-> list[i].Emp_Id,
         name     |-> list[i].Name,
         status   |-> list[i].Status,
         ip       |-> list[i].IP,
         overtime |-> PersistOvertime(list[i].Overtime_Hours).val]]

\* mark_all writing the marked rows to the file of the default day as well
mark_all_saving(status) ==
    /\ rows' = [i \in 1..Len(rows) |-> [rows[i] EXCEPT !.Status = status]]
    /\ attFiles' = save_attendance(DAY_1, Persist(rows'))
    /\ msg' = NoMsg
    /\ exc' = "none"
    /\ UNCHANGED <<records, empFile, sel_emp_id>>
    /\ SalUnchanged

\* AttendanceTab.mark_all
mark_all(status) ==
    /\ msg' = NoMsg
    /\ exc' = "none"
    /\ rows' = [i \in 1..Len(rows) |-> [rows[i] EXCEPT !.Status = status]]
    /\ UNCHANGED <<records, empFile, attFiles, sel_emp_id>>
    /\ SalUnchanged

\* AttendanceTab.on_tree_select with table row i selected
on_tree_select(i) ==
    /\ i \in 1..Len(rows)
    /\ sel_emp_id' = rows[i].Emp_Id
    /\ msg' = NoMsg
    /\ exc' = "none"
    /\ UNCHANGED <<records, empFile, attFiles, rows>>
    /\ SalUnchanged

\* (self.sel_status.get() or "A").upper()[0]
StatusOf(text) == <<upper(IF Len(text) = 0 THEN STATUS_A ELSE text)[1]>>

\* The first row holding the id (the loop of on_save_selected breaks there); 0 for none
FindRow(list, id) ==
    LET hits == {i \in 1..Len(list) : list[i].Emp_Id = id} IN
    IF hits = {} THEN 0 ELSE CHOOSE i \in hits : \A j \in hits : i <= j

\* AttendanceTab.on_save_selected: edit is the content of the status, IP and
\* overtime fields of the editor
on_save_selected(edit, res) ==
    LET ot == ParseFloat(edit.ot)
        idx == FindRow(rows, sel_emp_id)
        ip == strip(edit.ip)
        new == [Status         |-> StatusOf(edit.status),
                IP             |-> IF Len(ip) = 0 THEN get_host_ip(res) ELSE ip,
                Overtime_Hours |-> ot.val]
    IN
    /\ IF Len(sel_emp_id) = 0
       THEN /\ msg' = NoMsg
            /\ UNCHANGED rows
       ELSE IF ~ot.ok \/ RLess(ot.val, Zero)
       THEN /\ msg' = Msg("Overtime", "Overtime Hours must be a non-negative number.")
            /\ UNCHANGED rows
       ELSE /\ msg' = Msg("Saved", "Selected row updated (not yet written to file).")
            /\ rows' = [i \in 1..Len(rows) |->
                           IF i = idx
                           THEN [rows[i] EXCEPT !.Status = new.Status, !.IP = new.IP,
                                                !.Overtime_Hours = new.Overtime_Hours]
                           ELSE rows[i]]
    /\ exc' = "none"
    /\ UNCHANGED <<records, empFile, attFiles, sel_emp_id>>
    /\ SalUnchanged

\* AttendanceTab.on_save_all: dateText is the content of the date field
on_save_all(dateText) ==
    LET day == strip(dateText) IN
    /\ IF ~valid_date(day)
       THEN /\ msg' = Msg("Date", "Please enter a valid date in YYYY-MM-DD.")
            /\ exc' = "none"
            /\ UNCHANGED <<attFiles, empFile>>
       ELSE IF \E i \in 1..Len(rows) : ~PersistOvertime(rows[i].Overtime_Hours).ok
       THEN /\ exc' = "ValueError"
            /\ msg' = NoMsg
            /\ UNCHANGED <<attFiles, empFile>>
       ELSE /\ msg' = MsgDay("Saved", "Attendance saved for", day)
            /\ exc' = "none"
            /\ attFiles' = save_attendance(day, Persist(rows))
            /\ empFile' = ensure_dirs(empFile)
    /\ UNCHANGED <<records, rows, sel_emp_id>>
    /\ SalUnchanged

-----------------------------------------------------------------------------
(* Salary tab                                                              *)

\* list(calendar.month_name)
MONTH_NAMES ==
    <<"", "January", "February", "March", "April", "May", "June", "July", "August",
      "September", "October", "November", "December">>

NoStats == [present |-> 0, absent |-> 0, ot |-> Zero]

\* str.startswith("P")
StartsWithP(s) == Len(s) > 0 /\ s[1] = "P"

\* The dict d of _gather_month_attendance is the list of its entries, in the
\* order of insertion: the position of emp in it, 0 when emp is no key
KeyIndex(d, emp) ==
    LET hits == {i \in 1..Len(d) : d[i].emp = emp} IN
    IF hits = {} THEN 0 ELSE CHOOSE i \in hits : TRUE

\* att.get(emp_id, {"present":0,"absent":0,"ot":0.0})
StatsOf(d, emp) ==
    IF KeyIndex(d, emp) = 0 THEN NoStats ELSE d[KeyIndex(d, emp)].stats

\* The inner loop's body comparing the status as written, without upper()
GatherRow_casesensitive(d, r) ==
    LET emp == Get(r, "emp_id", NoText)
        at == KeyIndex(d, emp)
        cur == IF at = 0 THEN NoStats ELSE d[at].stats
        st == Get(r, "status", STATUS_A)
        status == IF Len(st) = 0 THEN STATUS_A ELSE st
        ot == ToFloat(Get(r, "overtime", Zero))
        new == [present |-> IF StartsWithP(status) THEN cur.present + 1 ELSE cur.present,
                absent  |-> IF StartsWithP(status) THEN cur.absent ELSE cur.absent + 1,
                ot      |-> IF ot.ok THEN RAdd(cur.ot, ot.val) ELSE cur.ot]
    IN  IF at = 0 THEN Append(d, [emp |-> emp, stats |-> new])
        ELSE [d EXCEPT ![at] = [emp |-> emp, stats |-> new]]

\* The body of the inner loop of _gather_month_attendance: d after record r
GatherRow(d, r) ==
    LET emp == Get(r, "emp_id", NoText)
        at == KeyIndex(d, emp)
        cur == IF at = 0 THEN NoStats ELSE d[at].stats
        st == Get(r, "status", STATUS_A)
        status == upper(IF Len(st) = 0 THEN STATUS_A ELSE st)
        ot == ToFloat(Get(r, "overtime", Zero))
        new == [present |-> IF StartsWithP(status) THEN cur.present + 1 ELSE cur.present,
                absent  |-> IF StartsWithP(status) THEN cur.absent ELSE cur.absent + 1,
                ot      |-> IF ot.ok THEN RAdd(cur.ot, ot.val) ELSE cur.ot]
    IN  IF at = 0 THEN Append(d, [emp |-> emp, stats |-> new])
        ELSE [d EXCEPT ![at] = [emp |-> emp, stats |-> new]]

\* The inner loop, from record i of the day's list on
RECURSIVE GatherRows(_, _, _)
GatherRows(d, list, i) ==
    IF Len(d) >= 0 /\ i > Len(list) THEN d
    ELSE GatherRows(GatherRow(d, list[i]), list, i + 1)

\* The outer loop, from day i of the month on; [ok |-> FALSE] when reading a
\* day's file raises
RECURSIVE GatherDays(_, _, _)
GatherDays(d, days, i) ==
    IF Len(d) >= 0 /\ i > Len(days) THEN [ok |-> TRUE, val |-> d]
    ELSE LET saved == load_attendance(days[i]) IN
         IF ~saved.ok THEN [ok |-> FALSE, val |-> d]
         ELSE GatherDays(GatherRows(d, saved.val, 1), days, i + 1)

\* The aggregation keeping its dict between runs: d starts from the totals of
\* the rows shown instead of {}
_gather_month_attendance_acc(year, month) ==
    GatherDays([i \in 1..Len(salRows) |->
                   [emp   |-> salRows[i].Emp_Id,
                    stats |-> [present |-> salRows[i].Present,
                               absent  |-> salRows[i].Absent,
                               ot      |-> salRows[i].Overtime_Hours]]],
               month_days_iter(year, month), 1)

\* SalaryTab._gather_month_attendance
_gather_month_attendance(year, month) ==
    GatherDays(<<>>, month_days_iter(year, month), 1)

STANDARD_HOURS == 176

\* The salary model counting at most working_days days present
NetPay_capped(base, present, ot_hours, working_days) ==
    LET per_hour == IF base # Zero THEN RDivInt(base, STANDARD_HOURS) ELSE Zero
        counted == IF present > working_days THEN working_days ELSE present
        prorated == RMul(base, IF working_days > 0 THEN Rat(counted, working_days) ELSE Zero)
        ot_pay == RMul(per_hour, ot_hours)
    IN  RMax(Zero, RAdd(prorated, ot_pay))

\* The salary model prorating by the days of a 30-day month instead of the
\* month's business days
NetPay_fixed30(base, present, ot_hours, working_days) ==
    LET per_hour == IF base # Zero THEN RDivInt(base, STANDARD_HOURS) ELSE Zero
        prorated == RMul(base, Rat(present, 30))
        ot_pay == RMul(per_hour, ot_hours)
    IN  RMax(Zero, RAdd(prorated, ot_pay))

\* The salary model of on_calculate
NetPay(base, present, ot_hours, working_days) ==
    LET per_hour == IF base # Zero THEN RDivInt(base, STANDARD_HOURS) ELSE Zero
        prorated == RMul(base, IF working_days > 0 THEN Rat(present, working_days) ELSE Zero)
        ot_pay == RMul(per_hour, ot_hours)
    IN  RMax(Zero, RAdd(prorated, ot_pay))

\* The row reading the days present from the key "absent" of the stats
SalaryRow_absentkey(e, att, month_str, working_days) ==
    LET emp_id == Get(e, "emp_id", NoText)
        base == ToFloat(Get(e, "base_salary", Zero)).val
        stats == StatsOf(att, emp_id)
    IN  [Emp_Id         |-> emp_id,
         Name           |-> Get(e, "name", NoText),
         Month          |-> month_str,
         Base_Salary    |-> base,
         Working_Days   |-> working_days,
         Present        |-> stats.absent,
         Absent         |-> stats.absent,
         Overtime_Hours |-> stats.ot,
         Net_Pay        |-> NetPay(base, stats.absent, stats.ot, working_days)]

\* The row on_calculate appends for roster entry e
SalaryRow(e, att, month_str, working_days) ==
    LET emp_id == Get(e, "emp_id", NoText)
        base == ToFloat(Get(e, "base_salary", Zero)).val
        stats == StatsOf(att, emp_id)
    IN  [Emp_Id         |-> emp_id,
         Name           |-> Get(e, "name", NoText),
         Month          |-> month_str,
         Base_Salary    |-> base,
         Working_Days   |-> working_days,
         Present        |-> stats.present,
         Absent         |-> stats.absent,
         Overtime_Hours |-> stats.ot,
         Net_Pay        |-> NetPay(base, stats.present, stats.ot, working_days)]

\* f"{year:04d}-{month:02d}"
MonthStr(year, month) == Format4(year) \o <<"-">> \o Format2(month)

\* The rows on_calculate builds from the month's attendance att and the roster
CalcRows(att, year, month, emp_filter) ==
    LET emps == load_employees
        wd == business_days_in_month(year, month)
        month_str == MonthStr(year, month)
        Wanted(e) == Len(emp_filter) = 0 \/ Get(e, "emp_id", NoText) = emp_filter
        picked == SelectSeq(emps, Wanted)
    IN  [i \in 1..Len(picked) |-> SalaryRow(picked[i], att, month_str, wd)]

\* SalaryTab.on_calculate: month_name is the content of the month box, year the
\* value of the year box, filterText the content of the employee id field
on_calculate(month_name, year, filterText) ==
    LET hits == {i \in 1..Len(MONTH_NAMES) : MONTH_NAMES[i] = month_name}
        month == (CHOOSE i \in hits : \A j \in hits : i <= j) - 1
        emps == load_employees
        att == _gather_month_attendance(year, month)
        result == CalcRows(att.val, year, month, strip(filterText))
    IN
    /\ IF hits = {}
       THEN /\ msg' = Msg("Month", "Select a valid month.")
            /\ exc' = "none"
            /\ UNCHANGED <<salRows, month_var, empFile>>
       ELSE /\ month_var' = MonthStr(year, month)
            /\ IF month = 0
               THEN /\ exc' = "ValueError"
                    /\ msg' = NoMsg
                    /\ UNCHANGED <<salRows, empFile>>
               ELSE IF ~att.ok
               THEN /\ exc' = "JSONDecodeError"
                    /\ msg' = NoMsg
                    /\ empFile' = ensure_dirs(empFile)
                    /\ UNCHANGED salRows
               ELSE IF \E i \in 1..Len(emps) : ~ToFloat(Get(emps[i], "base_salary", Zero)).ok
               THEN /\ exc' = "ValueError"
                    /\ msg' = NoMsg
                    /\ empFile' = ensure_dirs(empFile)
                    /\ UNCHANGED salRows
               ELSE /\ salRows' = result
                    /\ empFile' = ensure_dirs(empFile)
                    /\ msg' = IF Len(result) = 0
                              THEN Msg("Salary", "No employees or no matching Employee ID.")
                              ELSE NoMsg
                    /\ exc' = "none"
    /\ UNCHANGED <<records, attFiles, rows, sel_emp_id>>

-----------------------------------------------------------------------------
(* Inputs of the handlers                                                  *)

\* A filled form: employee id, name and base salary as typed, the join date
\* left at its default and the optional fields empty
Form(id, name, base) ==
    [emp_id |-> id, name |-> name, department |-> NoText, role |-> NoText,
     base_salary |-> base, join_date |-> DEFAULT_DATE_STR, phone |-> NoText,
     email |-> NoText]

SALARY_100 == <<"1", "0", "0">>

ValidForms ==
    { Form(<<" ", "1">>, <<"a">>, SALARY_100),
      Form(<<"1">>, <<"b", " ">>, SALARY_100),
      Form(<<"2">>, <<"a">>, SALARY_100),
      [Form(<<"2">>, <<"a">>, <<"1", ".", "5">>) EXCEPT
          !.join_date = NoText, !.phone = <<"5">>, !.email = <<"a", "@", "b", ".", "c">>] }

InvalidForms ==
    { Form(NoText, <<"a">>, SALARY_100),
      Form(<<"x">>, <<"a">>, SALARY_100),
      Form(<<"1">>, <<" ">>, SALARY_100),
      Form(<<"1">>, <<"a">>, NoText),
      Form(<<"1">>, <<"a">>, <<"-", "5">>),
      Form(<<"1">>, <<"a">>, <<".">>),
      [Form(<<"1">>, <<"a">>, SALARY_100) EXCEPT
          !.join_date = <<"2", "0", "2", "5", "-", "0", "2", "-", "3", "0">>],
      [Form(<<"1">>, <<"a">>, SALARY_100) EXCEPT !.email = <<"a", "@", "b">>],
      [Form(<<"1">>, <<"a">>, SALARY_100) EXCEPT !.phone = <<"5", "x">>] }

Forms == ValidForms \cup InvalidForms

\* The forms tried while the attendance tab is in use as well
LeanForms ==
    (ValidForms \ {Form(<<"2">>, <<"a">>, SALARY_100)}) \cup {Form(NoText, <<"a">>, SALARY_100)}

\* Contents of the date field: two days (one typed with blanks around it) and
\* a string that is no date
DateTexts == {DAY_1, <<" ">> \o DAY_2 \o <<" ">>, <<"2", "0", "2", "5", "-", "0", "2", "-", "3", "0">>}

\* Outcomes of resolving the host address
HostResults == {[ok |-> TRUE, addr |-> <<"h">>], [ok |-> FALSE, addr |-> NoText]}

\* The outcome during a session on a host whose address resolves
SessionHost == {[ok |-> TRUE, addr |-> <<"h">>]}

\* Contents of the editor fields (status, IP, overtime)
Edits ==
    { [status |-> <<"p">>, ip |-> <<" ", "9", " ">>, ot |-> <<"2">>],
      [status |-> <<"x">>, ip |-> NoText, ot |-> <<"0">>],
      [status |-> NoText, ip |-> NoText, ot |-> <<"-", "1">>],
      [status |-> NoText, ip |-> NoText, ot |-> NoText] }

\* Contents of the month box: a month, the empty text and a text that is no month
MonthTexts == {"August", "", "Augst"}

\* Contents of the employee id field of the salary tab
FilterTexts == {NoText, <<" ", "1">>}

-----------------------------------------------------------------------------
(* The application: the tabs as built after login on a fresh data directory *)

MONTH_2025_08 == <<"2", "0", "2", "5", "-", "0", "8">>

Init ==
    /\ empFile = json_dump(<<>>)
    /\ attFiles = [d \in {} |-> NoFile]
    /\ records = <<>>
    /\ rows = <<>>
    /\ sel_emp_id = NoText
    /\ salRows = <<>>
    /\ month_var = MONTH_2025_08
    /\ msg = NoMsg
    /\ exc = "none"
    /\ nOps = 0

\* One handler invocation of a bounded session
Step(handler) == nOps < MaxOps /\ nOps' = nOps + 1 /\ handler

\* One handler invocation, not counted
Free(handler) == handler /\ UNCHANGED nOps

(* A session on the Employees and Attendance tabs *)

SaveNew == \E form \in LeanForms : Step(on_save_new(form))

Update == \E form \in LeanForms : Step(on_update(form))

DeleteSelected ==
    \E sel \in SUBSET (1..Len(records)), confirm \in BOOLEAN :
        Step(on_delete_selected(sel, confirm))

Load == \E dateText \in DateTexts, res \in SessionHost : Step(on_load(dateText, res))

MarkAll == \E status \in {STATUS_P, STATUS_A} : Step(mark_all(status))

TreeSelect == \E i \in 1..Len(rows) : Step(on_tree_select(i))

SaveSelected == \E edit \in Edits, res \in SessionHost : Step(on_save_selected(edit, res))

SaveAll == \E dateText \in DateTexts : Step(on_save_all(dateText))

Next ==
    \/ SaveNew
    \/ Update
    \/ DeleteSelected
    \/ Load
    \/ MarkAll
    \/ TreeSelect
    \/ SaveSelected
    \/ SaveAll

Spec == Init /\ [][Next]_vars

(* The Employees tab alone, with every form *)

RosterSaveNew == \E form \in Forms : Free(on_save_new(form))

RosterUpdate == \E form \in Forms : Free(on_update(form))

RosterDelete ==
    \E sel \in SUBSET (1..Len(records)), confirm \in BOOLEAN :
        Free(on_delete_selected(sel, confirm))

NextRoster ==
    \/ RosterSaveNew
    \/ RosterUpdate
    \/ RosterDelete

SpecRoster == Init /\ [][NextRoster]_vars

(* Start-up and loading on a data directory left by an earlier run or     *)
(* touched from outside: each file is absent, garbage or a JSON document   *)

\* An employee as on_save_new stores it
Employee(id, name, base) == Normalized(_read_form(Form(id, name, base)).rec)

\* An attendance record as on_save_all stores it
AttRecord(id, name, status, overtime) ==
    [emp_id |-> id, name |-> name, status |-> status, ip |-> LOOPBACK, overtime |-> overtime]

StoredRosters ==
    { <<>>,
      <<Employee(<<"1">>, <<"a">>, SALARY_100)>>,
      <<Employee(<<"1">>, <<"a">>, SALARY_100), Employee(<<"2">>, <<"b">>, <<"0">>)>> }

StoredSnapshots ==
    { <<AttRecord(<<"1">>, <<"a">>, STATUS_P, Rat(2, 1))>>,
      <<AttRecord(<<"2">>, <<"b">>, STATUS_A, Zero), AttRecord(<<"1">>, <<"a">>, STATUS_P, Zero)>> }

\* What a file of the data directory may hold
RosterFiles == {NoFile, Garbage} \cup {json_dump(r) : r \in StoredRosters}

SnapshotFiles == {Garbage} \cup {json_dump(r) : r \in StoredSnapshots}

\* Before the tabs are built
InitStore ==
    /\ empFile \in RosterFiles
    /\ \E days \in SUBSET {DAY_1, DAY_2} : attFiles \in [days -> SnapshotFiles]
    /\ records = <<>>
    /\ rows = <<>>
    /\ sel_emp_id = NoText
    /\ salRows = <<>>
    /\ month_var = MONTH_2025_08
    /\ msg = NoMsg
    /\ exc = "none"
    /\ nOps = 0

\* ensure_dirs() of the main program and EmployeesTab.__init__
EmployeesTab_init ==
    /\ records' = load_employees
    /\ empFile' = ensure_dirs(empFile)
    /\ msg' = NoMsg
    /\ exc' = "none"
    /\ AttUnchanged /\ SalUnchanged

StoreStart == Free(EmployeesTab_init)

StoreLoad == \E dateText \in DateTexts, res \in HostResults : Free(on_load(dateText, res))

StoreCalculate ==
    \E month_name \in MonthTexts, filterText \in FilterTexts :
        Free(on_calculate(month_name, 2025, filterText))

NextStore ==
    \/ StoreStart
    \/ StoreLoad
    \/ StoreCalculate

SpecStore == InitStore /\ [][NextStore]_vars

(* The Salary tab on stored months                                         *)

\* A roster of the data model: ids unique, base salaries non-negative decimals
SalaryRosters ==
    { <<Employee(<<"1">>, <<"a">>, <<"1", "7", "6", "0", "0">>)>>,
      <<Employee(<<"2">>, <<"b">>, <<"0">>), Employee(<<"1">>, <<"a">>, <<"1", ".", "5">>)>> }

\* The snapshots a stored month is made of: as Save All writes them,
AllPresent == <<AttRecord(<<"1">>, <<"a">>, STATUS_P, Zero)>>

OneAbsent ==
    <<AttRecord(<<"1">>, <<"a">>, STATUS_A, Zero), AttRecord(<<"2">>, <<"b">>, <<"X">>, Rat(1, 1))>>

\* and as written by hand: a lower-case or missing status, an overtime that
\* is a string or no number, two records of one employee
LowerCase ==
    <<AttRecord(<<"1">>, <<"a">>, <<"p">>, Rat(3, 2)),
      AttRecord(<<"2">>, <<"b">>, <<"P", "r", "e", "s", "e", "n", "t">>, [str |-> <<"x">>])>>

HandEdited ==
    <<AttRecord(<<"1">>, <<"a">>, STATUS_P, [str |-> <<"2">>]),
      [emp_id |-> <<"1">>, name |-> <<"a">>, ip |-> LOOPBACK, overtime |-> Rat(1, 1)],
      AttRecord(<<"3">>, <<"c">>, NoText, Zero)>>

\* and as Save All writes the row of an absent employee whose overtime was
\* entered with Save (selected row)
AbsentOvertime == <<AttRecord(<<"1">>, <<"a">>, STATUS_A, Rat(2, 1))>>

\* What a day of a stored month holds: no file, or the file of a snapshot
DayContent(snapshots) ==
    {[file |-> FALSE, list |-> <<>>]} \cup {[file |-> TRUE, list |-> r] : r \in snapshots}

\* The business days, the other days and the odd day of a stored month
BusinessContents == DayContent({AllPresent, OneAbsent, LowerCase, HandEdited})

RestContents == DayContent({AllPresent, OneAbsent})

OddContents == DayContent({LowerCase, HandEdited, AbsentOvertime})

\* The days of August 2025 that may differ from the other days of their kind:
\* Friday the 1st and Sunday the 31st
OddDays == {1, 31}

\* The attendance directory holding, for every day of August 2025, what[1] on
\* the business days and what[2] on the other days, except what[3] on the odd
\* day; and what[3] on the last of July and the first of September
MonthStore(what, odd) ==
    LET Content(d) ==
            IF d \in {0, 32} \/ d = odd THEN what[3]
            ELSE IF Weekday(2025, 8, d) < 5 THEN what[1] ELSE what[2]
        Key(d) ==
            IF d = 0 THEN FormatDate(2025, 7, 31)
            ELSE IF d = 32 THEN FormatDate(2025, 9, 1)
            ELSE FormatDate(2025, 8, d)
        stored == {d \in 0..32 : Content(d).file}
    IN  [k \in {Key(d) : d \in stored} |->
            json_dump(Content(CHOOSE d \in stored : Key(d) = k).list)]

\* The overtime of the first of September in a month of overtime: ten hours,
\* or a negative number written by hand
MonthOvertimes == {Rat(10, 1), Rat(-400, 1)}

\* The attendance directory holding, for every business day of September 2025,
\* employee 1 present: with overtime ot on the first, without on the others
OvertimeStore(ot) ==
    [k \in {FormatDate(2025, 9, d) : d \in {n \in 1..30 : Weekday(2025, 9, n) < 5}} |->
        json_dump(IF k = FormatDate(2025, 9, 1)
                  THEN <<AttRecord(<<"1">>, <<"a">>, STATUS_P, ot)>>
                  ELSE AllPresent)]

InitSalary ==
    /\ \E r \in SalaryRosters : records = r /\ empFile = json_dump(r)
    /\ \/ \E business \in BusinessContents, rest \in RestContents, other \in OddContents :
             \E odd \in OddDays : attFiles = MonthStore(<<business, rest, other>>, odd)
       \/ \E ot \in MonthOvertimes : attFiles = OvertimeStore(ot)
    /\ rows = <<>>
    /\ sel_emp_id = NoText
    /\ salRows = <<>>
    /\ month_var = MONTH_2025_08
    /\ msg = NoMsg
    /\ exc = "none"
    /\ nOps = 0

\* Contents of the month and year boxes: a leap February without files, the
\* stored month and the month after it
SalaryPeriods == {<<"February", 2024>>, <<"August", 2025>>, <<"September", 2025>>}

Calculate == \E period \in SalaryPeriods : Free(on_calculate(period[1], period[2], NoText))

NextSalary == Calculate

SpecSalary == InitSalary /\ [][NextSalary]_vars

(* The Salary tab over the calendar                                        *)

\* Values of the year box, which runs from 1900 to 3000: century years that
\* are and are not leap years, a leap year and a common year
CalendarYears == {1900, 2000, 2024, 2025}

\* The attendance directory: empty, or August 2025 with one snapshot on every day
CalendarStores ==
    {MonthStore(<<c, c, c>>, 1) : c \in DayContent({AllPresent, OneAbsent})}

InitCalendar ==
    /\ \E r \in SalaryRosters : records = r /\ empFile = json_dump(r)
    /\ attFiles \in CalendarStores
    /\ rows = <<>>
    /\ sel_emp_id = NoText
    /\ salRows = <<>>
    /\ month_var = MONTH_2025_08
    /\ msg = NoMsg
    /\ exc = "none"
    /\ nOps = 0

CalendarCalculate ==
    \E m \in 2..Len(MONTH_NAMES), year \in CalendarYears :
        Free(on_calculate(MONTH_NAMES[m], year, NoText))

NextCalendar == CalendarCalculate

SpecCalendar == InitCalendar /\ [][NextCalendar]_vars

-----------------------------------------------------------------------------
(* Properties of the roster (Employees tab)                                *)

\* The ids of a list of employee or attendance records are pairwise distinct
DistinctIds(list) ==
    \A i, j \in 1..Len(list) : list[i].emp_id = list[j].emp_id => i = j

\* The roster as persisted
StoredRoster == json_load(empFile).val

\* C1: after any sequence of Save New, Update and Delete Selected, no two
\* employees of the roster, in memory and as persisted, have the same emp_id.
C1_UniqueEmpId ==
    /\ DistinctIds(records)
    /\ empFile.kind = "json"
    /\ DistinctIds(StoredRoster)

\* Two employees are on the roster and in the file
C1_Witness == Len(records) = 2 /\ Len(StoredRoster) = 2

\* The id a form holds is the id of an employee of the roster
IdOnRoster(form) == \E i \in 1..Len(records) : records[i].emp_id = strip(form.emp_id)

RosterUnchanged == records' = records /\ empFile' = empFile

\* C2: Save New with an emp_id that is on the roster already is reported as a
\* duplicate and leaves the in-memory and the persisted roster as they were.
C2_DuplicateRejected ==
    [][\A form \in Forms :
          (on_save_new(form) /\ _read_form(form).ok /\ IdOnRoster(form))
              => (msg'.title = "Duplicate" /\ RosterUnchanged)]_vars

\* A duplicate was reported on a roster that holds an employee
C2_Witness == msg.title = "Duplicate" /\ Len(records) > 0

\* What the form validation rejects: an empty or non-digit id, an empty name,
\* an unparsable or negative base salary, an invalid join date, email or phone
Malformed(form) ==
    LET id == strip(form.emp_id)
        bs == ParseFloat(strip(form.base_salary))
        jd == strip(form.join_date)
        em == strip(form.email)
        ph == strip(form.phone)
    IN  \/ ~isdigit(id)
        \/ Len(strip(form.name)) = 0
        \/ ~bs.ok
        \/ bs.val.num < 0
        \/ (Len(jd) > 0 /\ ~valid_date(jd))
        \/ (Len(em) > 0 /\ ~EmailShape(em))
        \/ (Len(ph) > 0 /\ ~isdigit(ph))

\* C3: an Update of an id that is not on the roster, and a Save New or Update
\* of a form that fails validation, is reported and aborted with the in-memory
\* and the persisted roster unchanged.
C3_FailedEditAborts ==
    [][\A form \in Forms :
          /\ (on_update(form) /\ ~Malformed(form) /\ ~IdOnRoster(form))
                => (msg'.title = "Not Found" /\ RosterUnchanged)
          /\ ((on_save_new(form) \/ on_update(form)) /\ Malformed(form))
                => (msg'.title = "Validation" /\ RosterUnchanged)]_vars

\* An update of an unknown id was reported on a roster that holds an employee
C3_Witness == msg.title = "Not Found" /\ Len(records) > 0

-----------------------------------------------------------------------------
(* Properties of the day snapshots (Attendance tab)                        *)

\* The stored snapshot of a day, as load_attendance returns it
Snapshot(day) == load_attendance(day).val

\* C4: in every reachable state, after any sequence of roster edits, Load,
\* Save (selected row), Mark All and Save All, each persisted day snapshot
\* holds at most one record per emp_id.
C4_OneRecordPerEmployee ==
    \A day \in DOMAIN attFiles :
        /\ attFiles[day].kind = "json"
        /\ \A i \in 1..Len(Snapshot(day)) : "emp_id" \in DOMAIN Snapshot(day)[i]
        /\ DistinctIds(Snapshot(day))

\* A stored snapshot holds the records of two employees
C4_Witness == \E day \in DOMAIN attFiles : Len(Snapshot(day)) = 2

\* The day a date field content stands for
DayOf(dateText) == strip(dateText)

\* The attendance directory after the step holds the same files as before,
\* except for the file of day
OtherDaysUnchanged(day) ==
    /\ DOMAIN attFiles' = DOMAIN attFiles \cup {day}
    /\ \A d \in DOMAIN attFiles : d # day => attFiles'[d] = attFiles[d]

\* C5: Mark All Present/Absent and Save (selected row) change only the
\* in-memory rows, every stored snapshot stays as it is; Save All replaces the
\* whole stored file of its day by the current in-memory rows, whatever the
\* file held before.
C5_EditsStayInMemory ==
    [][/\ \A status \in {STATUS_P, STATUS_A} :
             mark_all(status) => UNCHANGED <<attFiles, empFile, records>>
       /\ \A edit \in Edits, res \in SessionHost :
             on_save_selected(edit, res) => UNCHANGED <<attFiles, empFile, records>>
       /\ \A dateText \in DateTexts :
             (on_save_all(dateText) /\ valid_date(DayOf(dateText)))
                 => /\ attFiles'[DayOf(dateText)] = json_dump(Persist(rows))
                    /\ OtherDaysUnchanged(DayOf(dateText))
                    /\ rows' = rows]_vars

\* A row marked present in memory while the stored record of the same
\* employee and day still says absent
C5_Witness ==
    \E day \in DOMAIN attFiles, i \in 1..Len(rows) :
        /\ i <= Len(Snapshot(day))
        /\ Snapshot(day)[i].emp_id = rows[i].Emp_Id
        /\ Snapshot(day)[i].status = STATUS_A
        /\ rows[i].Status = STATUS_P

\* C6: saving a day's snapshot with N records and then loading the same day
\* returns exactly those N records, in the same order and with unchanged
\* fields, and leaves the snapshots of all other days unchanged.
C6_SaveLoadRoundTrip ==
    [][\A dateText \in DateTexts :
          (on_save_all(dateText) /\ valid_date(DayOf(dateText)))
              => /\ load_attendance(DayOf(dateText))' = [ok |-> TRUE, val |-> Persist(rows)]
                 /\ \A d \in DOMAIN attFiles :
                       d # DayOf(dateText) => load_attendance(d)' = load_attendance(d)]_vars

\* Two days are stored, the one saved last with two records
C6_Witness ==
    /\ msg.title = "Saved" /\ msg.arg \in DOMAIN attFiles
    /\ Cardinality(DOMAIN attFiles) = 2
    /\ Len(Snapshot(msg.arg)) = 2

-----------------------------------------------------------------------------
(* Properties of the record store                                          *)

\* C7: loading the roster, or a day's attendance, from a file whose content is
\* malformed yields an empty collection instead of raising an error: the
\* start-up on a malformed employees file gives the empty roster, and Load of
\* a day whose file is malformed reads an empty snapshot and raises nothing.
C7_MalformedLoadsEmpty ==
    [][/\ (EmployeesTab_init /\ empFile = Garbage)
             => (records' = <<>> /\ exc' = "none")
       /\ \A dateText \in DateTexts, res \in HostResults :
             ( /\ on_load(dateText, res)
               /\ valid_date(DayOf(dateText))
               /\ DayOf(dateText) \in DOMAIN attFiles
               /\ attFiles[DayOf(dateText)] = Garbage )
                 => /\ load_attendance(DayOf(dateText)) = [ok |-> TRUE, val |-> <<>>]
                    /\ exc' = "none"]_vars

-----------------------------------------------------------------------------
(* Properties of the month aggregation and the salary (Salary tab)         *)

\* The number of the month a period names: its index in MONTH_NAMES
MonthIndex(period) == (CHOOSE i \in 1..Len(MONTH_NAMES) : MONTH_NAMES[i] = period[1]) - 1

\* The days of the month that have a snapshot, as day numbers
SnapshotDays(year, month) ==
    {n \in 1..DaysInMonth(year, month) : FormatDate(year, month, n) \in DOMAIN attFiles}

\* The stored snapshot of day n of the month
SnapshotOn(year, month, n) == Snapshot(FormatDate(year, month, n))

\* The records of employee emp in the snapshots of the month, each as
\* <<day number, position>>
RecordsOf(emp, year, month) ==
    UNION {LET snap == SnapshotOn(year, month, n) IN
           {<<n, i>> : i \in {j \in 1..Len(snap) : Get(snap[j], "emp_id", NoText) = emp}} :
           n \in SnapshotDays(year, month)}

\* The status of record r starts with "P" or "p"
MarkedPresent(r) ==
    "status" \in DOMAIN r /\ Len(r.status) > 0 /\ r.status[1] \in {"P", "p"}

\* The overtime of record r, 0 when it is no number
OvertimeOf(r) ==
    LET v == ToFloat(Get(r, "overtime", Zero)) IN IF v.ok THEN v.val ELSE Zero

\* The sum of the numbers ots[x], x in S: each value that occurs, times the
\* number of x that hold it
RECURSIVE SumByValue(_, _, _)
SumByValue(values, S, ots) ==
    IF values = {} THEN Zero
    ELSE LET v == CHOOSE w \in values : TRUE
             n == Cardinality({x \in S : ots[x] = v})
         IN  RAdd(RMul(v, Rat(n, 1)), SumByValue(values \ {v}, S, ots))

\* The totals of employee emp in the month, counted record by record
MonthTotals(emp, year, month) ==
    LET own == RecordsOf(emp, year, month)
        rec == [x \in own |-> SnapshotOn(year, month, x[1])[x[2]]]
        ots == [x \in own |-> OvertimeOf(rec[x])]
        marked == {x \in own : MarkedPresent(rec[x])}
    IN  [present |-> Cardinality(marked),
         absent  |-> Cardinality(own \ marked),
         ot      |-> SumByValue({ots[x] : x \in own}, own, ots)]

\* C8: for every set of stored snapshots, the aggregation of a month gives for
\* each employee: present = the number of its records, over the days of the
\* month that have a snapshot, whose status starts with "P" or "p"; absent =
\* the number of its other records; ot = the sum of its records' overtime, an
\* unparsable value counting 0.  A day without snapshot adds to no count.  The
\* rows of the salary table show the same totals.
C8_MonthTotals ==
    \A period \in SalaryPeriods :
        LET year == period[2]
            month == MonthIndex(period)
            att == _gather_month_attendance(year, month)
        IN  month > 0 =>
              /\ att.ok
              /\ \A i, j \in 1..Len(att.val) : att.val[i].emp = att.val[j].emp => i = j
              /\ \A i \in 1..Len(att.val) :
                    /\ RecordsOf(att.val[i].emp, year, month) # {}
                    /\ att.val[i].stats = MonthTotals(att.val[i].emp, year, month)
              /\ \A n \in SnapshotDays(year, month) :
                    \A k \in 1..Len(SnapshotOn(year, month, n)) :
                        KeyIndex(att.val, Get(SnapshotOn(year, month, n)[k], "emp_id", NoText)) > 0
              /\ \A i \in 1..Len(salRows) :
                    salRows[i].Month = MonthStr(year, month) =>
                        [present |-> salRows[i].Present,
                         absent  |-> salRows[i].Absent,
                         ot      |-> salRows[i].Overtime_Hours]
                            = MonthTotals(salRows[i].Emp_Id, year, month)

\* A row of the salary table with days present and days absent, of an employee
\* with a record whose overtime is no number, for a month with a day without
\* snapshot
C8_Witness ==
    \E i \in 1..Len(salRows) :
        /\ salRows[i].Month = MONTH_2025_08
        /\ salRows[i].Present > 0
        /\ salRows[i].Absent > 0
        /\ salRows[i].Overtime_Hours # Zero
        /\ \E x \in RecordsOf(salRows[i].Emp_Id, 2025, 8) :
              ~ToFloat(Get(SnapshotOn(2025, 8, x[1])[x[2]], "overtime", Zero)).ok
        /\ Cardinality(SnapshotDays(2025, 8)) < 31

\* The per-employee totals a list of salary rows shows
ShownTotals(list) ==
    [i \in 1..Len(list) |->
        [emp     |-> list[i].Emp_Id,
         present |-> list[i].Present,
         absent  |-> list[i].Absent,
         ot      |-> list[i].Overtime_Hours]]

\* C9: the aggregation is idempotent: a run for the month of the rows shown,
\* with no save since the run that gave them, yields the per-employee totals
\* they show, whatever ran before.
C9_AggregationIdempotent ==
    [][\A period \in SalaryPeriods :
          LET year == period[2]
              month == MonthIndex(period)
          IN  ( /\ on_calculate(period[1], year, NoText)
                /\ exc' = "none"
                /\ Len(salRows) > 0
                /\ salRows[1].Month = MonthStr(year, month) )
                  => ShownTotals(salRows') = ShownTotals(salRows)]_vars

\* The rows of a run for September are shown, with days present: the state a
\* second run for September starts from
C9_Witness ==
    /\ month_var = MonthStr(2025, 9)
    /\ exc = "none"
    /\ \E i \in 1..Len(salRows) : salRows[i].Month = month_var /\ salRows[i].Present > 0

\* Employee emp has a record marked present on every business day of the month
PresentEveryBusinessDay(emp, year, month) ==
    \A day \in 1..DaysInMonth(year, month) :
        Weekday(year, month, day) < 5 =>
            \E x \in RecordsOf(emp, year, month) :
                x[1] = day /\ MarkedPresent(SnapshotOn(year, month, day)[x[2]])

WeekdaysIn(year, month) ==
    Cardinality({day \in 1..DaysInMonth(year, month) : Weekday(year, month, day) < 5})

AbsentAllMonth(emp, year, month) ==
    \A x \in RecordsOf(emp, year, month) :
        ~MarkedPresent(SnapshotOn(year, month, x[1])[x[2]])

\* C11: for an employee whose records in every snapshot of the month are
\* absent, or who has no record in any snapshot of the month, the net pay
\* computed is 0.
C11_AbsentPaysNothing ==
    \A period \in SalaryPeriods : \A i \in 1..Len(salRows) :
        LET year == period[2]
            month == MonthIndex(period)
        IN  ( /\ month > 0
              /\ salRows[i].Month = MonthStr(year, month)
              /\ AbsentAllMonth(salRows[i].Emp_Id, year, month) )
                => salRows[i].Net_Pay = Zero

\* C11, amended: for an employee whose records in every snapshot of the month
\* are absent and hold overtime hours that total 0, or who has no record in
\* any snapshot of the month, the net pay computed is 0.
C11_AbsentPaysNothing_Amended ==
    \A period \in SalaryPeriods : \A i \in 1..Len(salRows) :
        LET year == period[2]
            month == MonthIndex(period)
        IN  ( /\ month > 0
              /\ salRows[i].Month = MonthStr(year, month)
              /\ AbsentAllMonth(salRows[i].Emp_Id, year, month)
              /\ MonthTotals(salRows[i].Emp_Id, year, month).ot = Zero )
                => salRows[i].Net_Pay = Zero

\* The row of an employee with a base salary and absent on every stored day
\* of August 2025, without overtime, is shown
C11_Witness ==
    \E i \in 1..Len(salRows) :
        /\ salRows[i].Month = MONTH_2025_08
        /\ AbsentAllMonth(salRows[i].Emp_Id, 2025, 8)
        /\ salRows[i].Absent >= 21
        /\ salRows[i].Overtime_Hours = Zero
        /\ salRows[i].Base_Salary # Zero
        /\ salRows[i].Net_Pay = Zero

\* max(0, base * present / working_days + (base / 176) * overtime) in exact
\* arithmetic, the first term 0 when working_days is 0
PayFormula(base, present, overtime, working_days) ==
    LET prorated == IF working_days = 0 THEN Zero
                    ELSE Rat(base.num * present, base.den * working_days)
        ot_pay == Rat(base.num * overtime.num, base.den * 176 * overtime.den)
        sum == RAdd(prorated, ot_pay)
    IN  IF sum.num < 0 THEN Zero ELSE sum

\* C12: for every roster employee the net pay is max(0, base * present /
\* working_days + (base / 176) * overtime), the prorated term being 0 when
\* there are no working days, the hourly rate 0 when the base salary is 0, and
\* the days present not capped at the working days; so the net pay is never
\* negative, and base 17600 with 22 working days, 22 days present and 10 hours
\* of overtime gives 18000.
C12_NetPayFormula ==
    /\ \A i \in 1..Len(salRows) :
          LET row == salRows[i] IN
          /\ row.Net_Pay = PayFormula(row.Base_Salary, row.Present, row.Overtime_Hours,
                                      row.Working_Days)
          /\ row.Net_Pay.num >= 0
          /\ NetPay(row.Base_Salary, row.Present, row.Overtime_Hours, 0)
                = PayFormula(row.Base_Salary, 0, row.Overtime_Hours, 1)
          /\ NetPay(Zero, row.Present, row.Overtime_Hours, row.Working_Days) = Zero
          /\ ( /\ row.Base_Salary = Rat(17600, 1)
               /\ row.Working_Days = 22
               /\ row.Present = 22
               /\ row.Overtime_Hours = Rat(10, 1) ) => row.Net_Pay = Rat(18000, 1)

\* C12, amended: the same formula, and base 17600 with 22 working days, 22
\* days present and 10 hours of overtime gives 17600 + 100 * 10 = 18600.
C12_NetPayFormula_Amended ==
    /\ \A i \in 1..Len(salRows) :
          LET row == salRows[i] IN
          /\ row.Net_Pay = PayFormula(row.Base_Salary, row.Present, row.Overtime_Hours,
                                      row.Working_Days)
          /\ row.Net_Pay.num >= 0
          /\ NetPay(row.Base_Salary, row.Present, row.Overtime_Hours, 0)
                = PayFormula(row.Base_Salary, 0, row.Overtime_Hours, 1)
          /\ NetPay(Zero, row.Present, row.Overtime_Hours, row.Working_Days) = Zero
          /\ ( /\ row.Base_Salary = Rat(17600, 1)
               /\ row.Working_Days = 22
               /\ row.Present = 22
               /\ row.Overtime_Hours = Rat(10, 1) ) => row.Net_Pay = Rat(18600, 1)

\* The row of the example is shown: base 17600, 22 working days, 22 days
\* present, 10 hours of overtime
C12_Witness ==
    \E i \in 1..Len(salRows) :
        /\ salRows[i].Base_Salary = Rat(17600, 1)
        /\ salRows[i].Working_Days = 22
        /\ salRows[i].Present = 22
        /\ salRows[i].Overtime_Hours = Rat(10, 1)
        /\ salRows[i].Net_Pay = Rat(18600, 1)

-----------------------------------------------------------------------------
(* Properties of the working days                                          *)

\* The length of a month by the Gregorian rule
MonthLength(year, month) ==
    LET leap == (year % 4 = 0 /\ year % 100 # 0) \/ year % 400 = 0
    IN  <<31, IF leap THEN 29 ELSE 28, 31, 30, 31, 30, 31, 31, 30, 31, 30, 31>>[month]

\* The day of the week by Sakamoto's formula: 0 is Sunday, 1 Monday, 6 Saturday
DayOfWeek(year, month, day) ==
    LET offset == <<0, 3, 2, 5, 0, 3, 5, 1, 4, 6, 2, 4>>
        y == IF month < 3 THEN year - 1 ELSE year
    IN  (y + (y \div 4) - (y \div 100) + (y \div 400) + offset[month] + day) % 7

\* The number of calendar days of the month that fall on Monday to Friday
MondayToFriday(year, month) ==
    Cardinality({day \in 1..MonthLength(year, month) : DayOfWeek(year, month, day) \in 1..5})

\* C13: the working days of (year, month) are the number of calendar days of
\* that month that fall on Monday to Friday, over the month's 28 to 31 days
\* (leap years included), whatever attendance is stored; for August 2025 they
\* are 21.
C13_WorkingDays ==
    \A i \in 1..Len(salRows) :
        LET year == ParseInt(SubSeq(salRows[i].Month, 1, 4))
            month == ParseInt(SubSeq(salRows[i].Month, 6, 7))
        IN  /\ salRows[i].Working_Days = MondayToFriday(year, month)
            /\ Len(month_days_iter(year, month)) = MonthLength(year, month)
            /\ Len(month_days_iter(year, month)) \in 28..31
            /\ salRows[i].Month = MONTH_2025_08 => salRows[i].Working_Days = 21

\* The rows of February 1900, which is no leap year, are shown with 20
\* working days although the store holds a snapshot of every day of August 2025
C13_Witness ==
    /\ Cardinality(DOMAIN attFiles) > 30
    /\ \E i \in 1..Len(salRows) :
          /\ salRows[i].Month = <<"1", "9", "0", "0", "-", "0", "2">>
          /\ salRows[i].Working_Days = 20

-----------------------------------------------------------------------------
(* Properties of Calculate on the store                                    *)

\* C14: Calculate, its month aggregation included, never mutates stored
\* state: the persisted roster and every persisted day snapshot are the same
\* after the computation as before it.  (A missing employees file reads as
\* the empty roster before and after.)
C14_CalculateKeepsStore ==
    [][\A month_name \in MonthTexts, filterText \in FilterTexts :
          on_calculate(month_name, 2025, filterText)
              => /\ attFiles' = attFiles
                 /\ load_employees' = load_employees
                 /\ (empFile.kind # "absent" => empFile' = empFile)
                 /\ records' = records]_vars

\* Rows were calculated from a stored roster and a stored snapshot
C14_Witness ==
    /\ Len(salRows) > 0
    /\ Len(load_employees) > 0
    /\ \E day \in DOMAIN attFiles : attFiles[day].kind = "json"

-----------------------------------------------------------------------------
(* Properties of Load and Save All                                         *)

\* C15: the name in an attendance record is a snapshot that is not re-synced:
\* once a record of a day and an emp_id is stored, no step changes the name
\* stored in the record of that day and emp_id, whatever happens to the
\* employee's name in the roster, a later Load and Save All of the day
\* included.
C15_NameNotResynced ==
    [][\A day \in DOMAIN attFiles :
          \A i \in 1..Len(Snapshot(day)), j \in 1..Len(Snapshot(day)') :
              Snapshot(day)'[j].emp_id = Snapshot(day)[i].emp_id
                  => Snapshot(day)'[j].name = Snapshot(day)[i].name]_vars

\* C16: every attendance record persisted by any sequence of Load, Mark All,
\* Save (selected row) and Save All has the status 'P' or 'A', and a row that
\* Load builds for an employee with no saved record of the day is Absent.
C16_StatusPresentOrAbsent ==
    /\ \A day \in DOMAIN attFiles :
           \A i \in 1..Len(Snapshot(day)) :
               Snapshot(day)[i].status \in {STATUS_P, STATUS_A}
    /\ msg.title = "Loaded"
           => \A i \in 1..Len(rows) :
                  (\/ msg.arg \notin DOMAIN attFiles
                   \/ \A j \in 1..Len(Snapshot(msg.arg)) :
                          Snapshot(msg.arg)[j].emp_id # rows[i].Emp_Id)
                      => rows[i].Status = STATUS_A

\* The positions of the records of employee id in the stored snapshot of day
SavedAt(day, id) == {j \in 1..Len(Snapshot(day)) : Snapshot(day)[j].emp_id = id}

\* Row row carries the status, ip and overtime of the stored record rec
CarriesOver(row, rec) ==
    /\ row.Status = rec.status
    /\ row.IP = rec.ip
    /\ row.Overtime_Hours = rec.overtime

C18_SaveAllWritesLoadedDay ==
    [][\A dateText \in DateTexts :
          (/\ msg.title = "Loaded"
           /\ msg.arg # DayOf(dateText)
           /\ DayOf(dateText) \in DOMAIN attFiles
           /\ on_save_all(dateText))
              => attFiles'[DayOf(dateText)] = attFiles[DayOf(dateText)]]_vars

====
